---- MODULE Spec2Model ----
(***************************************************************************)
(* Model of prometheus_mcp_server/server.py: the request gateway           *)
(* (make_prometheus_request), the metric-name cache (get_cached_metrics)   *)
(* and the tool handlers built on them.                                    *)
(*                                                                         *)
(* Conventions.  A Python Optional is a sequence of length 0 (None) or 1.  *)
(* A Python str that the code inspects (metric names, filter terms, the    *)
(* base URL) is a sequence of characters/tokens; opaque strings are TLA+   *)
(* strings with "" for the empty string.  An exception is a record         *)
(* [type, msg, status_code, logged]: msg is the message as a sequence of   *)
(* words, logged names the except clause that logged it.                   *)
(***************************************************************************)
EXTENDS Integers, Sequences, FiniteSets, TLC

VARIABLES config, requests_version, metrics_cache, now, task, fetch_log

vars == <<config, requests_version, metrics_cache, now, task, fetch_log>>

(***************************************************************************)
(* Bounds of the model.                                                    *)
(***************************************************************************)
MaxCalls == 2
MaxClockSteps == 1
MaxOffset == 3
MaxLimit == 2
MaxCatalog == 2
StartTime == 1000

\* server.py:21
CACHE_TTL == 300

None == <<>>
Some(x) == <<x>>
IsNone(o) == Len(o) = 0
Min(a, b) == IF a < b THEN a ELSE b
Max(a, b) == IF a > b THEN a ELSE b

(***************************************************************************)
(* Python primitives used by the handlers.                                 *)
(***************************************************************************)
\* str.lower() on the characters that occur in the modelled names
LowerChar(c) ==
    CASE c = "U" -> "u"
      [] c = "P" -> "p"
      [] c = "G" -> "g"
      [] OTHER -> c

Lower(s) == [i \in 1..Len(s) |-> LowerChar(s[i])]

\* `term in m` on strings: term occurs as a contiguous substring of m
StrIn(term, m) ==
    \E i \in 1..(Len(m) + 1) :
        /\ i + Len(term) - 1 <= Len(m)
        /\ SubSeq(m, i, i + Len(term) - 1) = term

\* [m for m in data if term in m.lower()]
RECURSIVE FilterBy(_, _)
FilterBy(term, data) ==
    IF data = <<>> THEN <<>>
    ELSE LET rest == FilterBy(term, Tail(data))
         IN IF StrIn(term, Lower(Head(data))) THEN <<Head(data)>> \o rest ELSE rest

\* index normalisation of a slice bound, as list.__getitem__ does it
SliceIndex(i, n) == IF i < 0 THEN Max(i + n, 0) ELSE Min(i, n)

\* the slice's last position left out
Slice_offByOne(data, start, stop) ==
    LET s == SliceIndex(start, Len(data))
        e == SliceIndex(stop, Len(data))
    IN IF e - 1 <= s THEN <<>> ELSE SubSeq(data, s + 1, e - 1)

\* data[start:stop]
Slice(data, start, stop) ==
    LET s == SliceIndex(start, Len(data))
        e == SliceIndex(stop, Len(data))
    IN IF e <= s THEN <<>> ELSE SubSeq(data, s + 1, e)

\* has_more computed with <= in place of <
Paginate_hasMoreLe(data, limit, offset) ==
    LET total_count == Len(data)
        start_idx == offset
        end_idx == IF ~IsNone(limit) THEN offset + limit[1] ELSE Len(data)
        paginated == Slice(data, start_idx, end_idx)
    IN [metrics |-> paginated,
        total_count |-> total_count,
        returned_count |-> Len(paginated),
        offset |-> offset,
        has_more |-> end_idx <= total_count]

\* the pagination block shared by list_metrics and search_metrics
Paginate(data, limit, offset) ==
    LET total_count == Len(data)
        start_idx == offset
        end_idx == IF ~IsNone(limit) THEN offset + limit[1] ELSE Len(data)
        paginated == Slice(data, start_idx, end_idx)
    IN [metrics |-> paginated,
        total_count |-> total_count,
        returned_count |-> Len(paginated),
        offset |-> offset,
        has_more |-> end_idx < total_count]

(***************************************************************************)
(* HTTP headers: a dict from header name to value.                         *)
(***************************************************************************)
EmptyDict == [k \in {} |-> <<>>]

\* headers[key] = value
DictSet(d, key, value) ==
    [k \in DOMAIN d \cup {key} |-> IF k = key THEN value ELSE d[k]]

\* headers.update(other)
DictUpdate(d, other) ==
    [k \in DOMAIN d \cup DOMAIN other |-> IF k \in DOMAIN other THEN other[k] ELSE d[k]]

\* str.rstrip('/') on the configured base URL (a sequence of tokens)
RECURSIVE RStripSlash(_)
RStripSlash(u) ==
    IF u # <<>> /\ u[Len(u)] = "/" THEN RStripSlash(SubSeq(u, 1, Len(u) - 1)) ELSE u

(***************************************************************************)
(* get_prometheus_auth: a header dict for a token, an HTTPBasicAuth object *)
(* for username+password, else None.                                       *)
(***************************************************************************)
\* username+password tested before the token
get_prometheus_auth_basicFirst(cfg) ==
    IF cfg.username # "" /\ cfg.password # ""
    THEN [kind |-> "HTTPBasicAuth",
          headers |-> EmptyDict,
          basic |-> Some(<<cfg.username, cfg.password>>)]
    ELSE IF cfg.token # ""
    THEN [kind |-> "dict",
          headers |-> DictSet(EmptyDict, "Authorization", <<"Bearer", cfg.token>>),
          basic |-> None]
    ELSE [kind |-> "None", headers |-> EmptyDict, basic |-> None]

get_prometheus_auth(cfg) ==
    IF cfg.token # ""
    THEN [kind |-> "dict",
          headers |-> DictSet(EmptyDict, "Authorization", <<"Bearer", cfg.token>>),
          basic |-> None]
    ELSE IF cfg.username # "" /\ cfg.password # ""
    THEN [kind |-> "HTTPBasicAuth",
          headers |-> EmptyDict,
          basic |-> Some(<<cfg.username, cfg.password>>)]
    ELSE [kind |-> "None", headers |-> EmptyDict, basic |-> None]

(***************************************************************************)
(* Exceptions.  IsRequestException / IsJSONDecodeError are the isinstance  *)
(* tests the except clauses of make_prometheus_request perform.            *)
(* requests >= 2.27 raises requests.exceptions.JSONDecodeError from        *)
(* Response.json(); it derives from both RequestException and              *)
(* json.JSONDecodeError.  Older releases raise json.JSONDecodeError.       *)
(***************************************************************************)
Exc(type, msg, code) == [type |-> type, msg |-> msg, status_code |-> code, logged |-> ""]

IsRequestException(e) ==
    e.type \in {"requests.ConnectionError", "requests.HTTPError", "requests.JSONDecodeError"}

IsJSONDecodeError(e) ==
    e.type \in {"json.JSONDecodeError", "requests.JSONDecodeError"}

\* Response.json() on a body that is not JSON
ResponseJsonError(version) ==
    IF version = "2.27+"
    THEN Exc("requests.JSONDecodeError", <<"Expecting", "value">>, 0)
    ELSE Exc("json.JSONDecodeError", <<"Expecting", "value">>, 0)

\* Response.raise_for_status(): HTTPError for 4xx and 5xx
RaisesForStatus(code) == 400 <= code /\ code < 600

\* the error text read from a key the envelope never has
TryBlock_wrongKey(version, resp) ==
    IF ~resp.connected
    THEN [raised |-> TRUE, value |-> None,
          exc |-> Some(Exc("requests.ConnectionError", <<"Connection", "refused">>, 0))]
    ELSE IF RaisesForStatus(resp.status_code)
    THEN [raised |-> TRUE, value |-> None,
          exc |-> Some(Exc("requests.HTTPError", <<"Error", "for", "url">>, resp.status_code))]
    ELSE IF ~resp.body.is_json
    THEN [raised |-> TRUE, value |-> None, exc |-> Some(ResponseJsonError(version))]
    ELSE IF IsNone(resp.body.status)
    THEN [raised |-> TRUE, value |-> None, exc |-> Some(Exc("KeyError", <<"status">>, 0))]
    ELSE IF resp.body.status[1] # "success"
    THEN LET error_msg == <<"Unknown", "error">>
         IN [raised |-> TRUE, value |-> None,
             exc |-> Some(Exc("ValueError", <<"Prometheus", "API", "error:">> \o error_msg, 0))]
    ELSE IF IsNone(resp.body.data)
    THEN [raised |-> TRUE, value |-> None, exc |-> Some(Exc("KeyError", <<"data">>, 0))]
    ELSE [raised |-> FALSE, value |-> Some(resp.body.data[1]), exc |-> None]

(***************************************************************************)
(* The try block of make_prometheus_request (lines 179-198) on a backend   *)
(* answer resp: either the returned data or the exception raised inside.   *)
(***************************************************************************)
TryBlock(version, resp) ==
    IF ~resp.connected
    THEN [raised |-> TRUE, value |-> None,
          exc |-> Some(Exc("requests.ConnectionError", <<"Connection", "refused">>, 0))]
    ELSE IF RaisesForStatus(resp.status_code)
    THEN [raised |-> TRUE, value |-> None,
          exc |-> Some(Exc("requests.HTTPError", <<"Error", "for", "url">>, resp.status_code))]
    ELSE IF ~resp.body.is_json
    THEN [raised |-> TRUE, value |-> None, exc |-> Some(ResponseJsonError(version))]
    ELSE IF IsNone(resp.body.status)
    THEN [raised |-> TRUE, value |-> None, exc |-> Some(Exc("KeyError", <<"status">>, 0))]
    ELSE IF resp.body.status[1] # "success"
    THEN LET error_msg == IF IsNone(resp.body.error) THEN <<"Unknown", "error">>
                          ELSE resp.body.error[1]
         IN [raised |-> TRUE, value |-> None,
             exc |-> Some(Exc("ValueError", <<"Prometheus", "API", "error:">> \o error_msg, 0))]
    ELSE IF IsNone(resp.body.data)
    THEN [raised |-> TRUE, value |-> None, exc |-> Some(Exc("KeyError", <<"data">>, 0))]
    ELSE [raised |-> FALSE, value |-> Some(resp.body.data[1]), exc |-> None]

\* the except clauses (lines 200-208), tried in source order
ExceptClauses(e) ==
    IF IsRequestException(e)
    THEN [e EXCEPT !.logged = "HTTP request to Prometheus failed"]
    ELSE IF IsJSONDecodeError(e)
    THEN [type |-> "ValueError",
          msg |-> <<"Invalid", "JSON", "response", "from", "Prometheus:">> \o e.msg,
          status_code |-> 0,
          logged |-> "Failed to parse Prometheus response as JSON"]
    ELSE [e EXCEPT !.logged = "Unexpected error during Prometheus request"]

(***************************************************************************)
(* make_prometheus_request(endpoint, params) against a backend that        *)
(* answers resp.  sent is the outbound GET (None when none was issued).    *)
(***************************************************************************)
\* the GET issued a second time when the first attempt failed
SendRequest_retry(cfg, version, endpoint, params, resp) ==
    LET url == RStripSlash(cfg.url) \o <<"/api/v1/", endpoint>>
        auth == get_prometheus_auth(cfg)
        h0 == IF auth.kind = "dict" THEN DictUpdate(EmptyDict, auth.headers) ELSE EmptyDict
        auth_arg == IF auth.kind = "dict" THEN None ELSE auth.basic
        h1 == IF cfg.org_id # "" THEN DictSet(h0, "X-Scope-OrgID", <<cfg.org_id>>) ELSE h0
        h2 == IF ~IsNone(cfg.custom_headers) /\ DOMAIN cfg.custom_headers[1] # {}
              THEN DictUpdate(h1, cfg.custom_headers[1]) ELSE h1
        get == [url |-> url, params |-> params, auth |-> auth_arg,
                headers |-> h2, verify |-> cfg.url_ssl_verify]
        r == TryBlock(version, resp)
    IN IF r.raised
       THEN [raised |-> TRUE, value |-> None, sent |-> <<get, get>>,
             exc |-> Some(ExceptClauses(r.exc[1]))]
       ELSE [raised |-> FALSE, value |-> r.value, sent |-> Some(get), exc |-> None]

\* lines 159-208: build the GET, issue it, validate the answer
SendRequest(cfg, version, endpoint, params, resp) ==
    LET url == RStripSlash(cfg.url) \o <<"/api/v1/", endpoint>>
        auth == get_prometheus_auth(cfg)
        h0 == IF auth.kind = "dict" THEN DictUpdate(EmptyDict, auth.headers) ELSE EmptyDict
        auth_arg == IF auth.kind = "dict" THEN None ELSE auth.basic
        h1 == IF cfg.org_id # "" THEN DictSet(h0, "X-Scope-OrgID", <<cfg.org_id>>) ELSE h0
        h2 == IF ~IsNone(cfg.custom_headers) /\ DOMAIN cfg.custom_headers[1] # {}
              THEN DictUpdate(h1, cfg.custom_headers[1]) ELSE h1
        get == [url |-> url, params |-> params, auth |-> auth_arg,
                headers |-> h2, verify |-> cfg.url_ssl_verify]
        r == TryBlock(version, resp)
    IN IF r.raised
       THEN [raised |-> TRUE, value |-> None, sent |-> Some(get),
             exc |-> Some(ExceptClauses(r.exc[1]))]
       ELSE [raised |-> FALSE, value |-> r.value, sent |-> Some(get), exc |-> None]

ConfigurationMissing ==
    [type |-> "ValueError",
     msg |-> <<"Prometheus", "configuration", "is", "missing.", "Please", "set",
               "PROMETHEUS_URL", "environment", "variable.">>,
     status_code |-> 0,
     logged |-> "Prometheus configuration missing"]

\* the test of config.url left out
make_prometheus_request_noUrlCheck(cfg, version, endpoint, params, resp) ==
    SendRequest(cfg, version, endpoint, params, resp)

make_prometheus_request(cfg, version, endpoint, params, resp) ==
    IF cfg.url = <<>>
    THEN [raised |-> TRUE, value |-> None, sent |-> None, exc |-> Some(ConfigurationMissing)]
    ELSE SendRequest(cfg, version, endpoint, params, resp)

(***************************************************************************)
(* get_cached_metrics() at clock reading current_time, where gw is the     *)
(* outcome of the gateway call it makes when the cache is not valid.       *)
(***************************************************************************)
\* comparison of the age against the TTL turned around
CacheValid_reversed(cache, current_time) ==
    ~IsNone(cache.data) /\ (current_time - cache.timestamp) > CACHE_TTL

\* a snapshot is served whatever its age
CacheValid_noTTL(cache, current_time) ==
    ~IsNone(cache.data)

CacheValid(cache, current_time) ==
    ~IsNone(cache.data) /\ (current_time - cache.timestamp) < CACHE_TTL

\* the failure path answers [] instead of the cached data
get_cached_metrics_noStale(cache, current_time, gw) ==
    IF CacheValid(cache, current_time)
    THEN [value |-> cache.data[1], cache |-> cache, fetched |-> FALSE, failed |-> FALSE]
    ELSE IF ~gw.raised
    THEN [value |-> gw.value[1],
          cache |-> [data |-> Some(gw.value[1]), timestamp |-> current_time],
          fetched |-> TRUE, failed |-> FALSE]
    ELSE [value |-> <<>>, cache |-> cache, fetched |-> TRUE, failed |-> TRUE]

\* the snapshot written without its timestamp
get_cached_metrics_tornWrite(cache, current_time, gw) ==
    IF CacheValid(cache, current_time)
    THEN [value |-> cache.data[1], cache |-> cache, fetched |-> FALSE, failed |-> FALSE]
    ELSE IF ~gw.raised
    THEN [value |-> gw.value[1],
          cache |-> [data |-> Some(gw.value[1]), timestamp |-> cache.timestamp],
          fetched |-> TRUE, failed |-> FALSE]
    ELSE [value |-> IF ~IsNone(cache.data) THEN cache.data[1] ELSE <<>>,
          cache |-> cache, fetched |-> TRUE, failed |-> TRUE]

\* the failure cached: the timestamp renewed although the fetch failed
get_cached_metrics_cachesFailure(cache, current_time, gw) ==
    IF CacheValid(cache, current_time)
    THEN [value |-> cache.data[1], cache |-> cache, fetched |-> FALSE, failed |-> FALSE]
    ELSE IF ~gw.raised
    THEN [value |-> gw.value[1],
          cache |-> [data |-> Some(gw.value[1]), timestamp |-> current_time],
          fetched |-> TRUE, failed |-> FALSE]
    ELSE [value |-> IF ~IsNone(cache.data) THEN cache.data[1] ELSE <<>>,
          cache |-> [cache EXCEPT !.timestamp = current_time],
          fetched |-> TRUE, failed |-> TRUE]

get_cached_metrics(cache, current_time, gw) ==
    IF CacheValid(cache, current_time)
    THEN [value |-> cache.data[1], cache |-> cache, fetched |-> FALSE, failed |-> FALSE]
    ELSE IF ~gw.raised
    THEN [value |-> gw.value[1],
          cache |-> [data |-> Some(gw.value[1]), timestamp |-> current_time],
          fetched |-> TRUE, failed |-> FALSE]
    ELSE [value |-> IF ~IsNone(cache.data) THEN cache.data[1] ELSE <<>>,
          cache |-> cache, fetched |-> TRUE, failed |-> TRUE]

(***************************************************************************)
(* Tool handlers.  A task is one invocation of a tool by the protocol      *)
(* runtime.  pc is its position: "called" (coroutine created), "await0",   *)
(* "await50", "await100" (suspended in the await of the progress report    *)
(* that emitted that value), "returned", "raised".  Code between two       *)
(* awaits runs without interleaving, so it is one step.                    *)
(* History fields of a task: sent (the GETs it issued), gateway_calls      *)
(* (its calls of make_prometheus_request), response (the backend's answer  *)
(* to its GET), caught (the exception its own except clause swallowed),    *)
(* catalog (the metric names it worked on).                                *)
(***************************************************************************)
Tasks == {1, 2}

NoArgs == [limit |-> None, offset |-> 0, pattern |-> None]

IdleTask ==
    [op |-> "none", pc |-> "idle", ctx |-> FALSE, args |-> NoArgs,
     progress |-> <<>>, data |-> None, result |-> None, exc |-> None,
     sent |-> <<>>, gateway_calls |-> 0,
     response |-> None, caught |-> None, catalog |-> None]

CtxOps == {"execute_range_query", "list_metrics", "search_metrics"}
Ops == CtxOps \cup {"execute_query", "get_metric_metadata", "get_targets", "health_check"}

CatalogEndpoint == "label/__name__/values"

\* runs of the handler body start where the coroutine starts, or where it
\* resumes after the first progress report
AtBody(s) == (s.pc = "called" /\ ~s.ctx) \/ s.pc = "await0"

\* bookkeeping of one gateway call in the task that made it
Charge(s, gw, resp) ==
    [s EXCEPT !.gateway_calls = @ + 1, !.sent = @ \o gw.sent,
              !.response = IF IsNone(gw.sent) THEN @ ELSE Some(resp)]

Raise(s, e) == [s EXCEPT !.pc = "raised", !.exc = Some(e)]

\* the last progress report left out
Finish_silent(s, result) ==
    IF s.ctx
    THEN [s EXCEPT !.result = Some(result), !.pc = "await100"]
    ELSE [s EXCEPT !.result = Some(result), !.pc = "returned"]

\* the handler's remaining code when no further await follows
Finish(s, result) ==
    IF s.ctx
    THEN [s EXCEPT !.progress = Append(@, 100), !.result = Some(result), !.pc = "await100"]
    ELSE [s EXCEPT !.result = Some(result), !.pc = "returned"]

\* the protocol runtime starts a tool invocation
Call(t, op, args, ctx) ==
    /\ task[t].pc = "idle"
    /\ task' = [task EXCEPT ![t] = [IdleTask EXCEPT !.op = op, !.pc = "called",
                                                   !.ctx = ctx, !.args = args]]
    /\ UNCHANGED <<config, requests_version, metrics_cache, now, fetch_log>>

\* the protocol runtime consumes the outcome of a finished invocation
Deliver(t) ==
    /\ task[t].pc \in {"returned", "raised"}
    /\ task' = [task EXCEPT ![t] = IdleTask]
    /\ UNCHANGED <<config, requests_version, metrics_cache, now, fetch_log>>

\* `if ctx: await ctx.report_progress(progress=0, ...)` at the handler's start
ReportStart(t) ==
    /\ task[t].pc = "called"
    /\ task[t].ctx
    /\ task' = [task EXCEPT ![t].progress = Append(@, 0), ![t].pc = "await0"]
    /\ UNCHANGED <<config, requests_version, metrics_cache, now, fetch_log>>

\* resumption after the last progress report: log and return result
ReportEnd(t) ==
    /\ task[t].pc = "await100"
    /\ task' = [task EXCEPT ![t].pc = "returned"]
    /\ UNCHANGED <<config, requests_version, metrics_cache, now, fetch_log>>

\* the wall clock (time.time()) moves between steps
Tick(d) ==
    /\ now + d <= StartTime + MaxClockSteps * CACHE_TTL
    /\ now' = now + d
    /\ UNCHANGED <<config, requests_version, metrics_cache, task, fetch_log>>

(***************************************************************************)
(* search_metrics: get_cached_metrics, filter, paginate.                   *)
(***************************************************************************)
SearchPage(data, args) ==
    LET term == Lower(args.pattern[1])
        filtered == FilterBy(term, data)
    IN Paginate(filtered, args.limit, args.offset)

\* the gateway's exception leaves get_cached_metrics and the handler
search_metrics_propagates(t, resp, elapsed) ==
    LET s == task[t]
        current_time == now
        gw == make_prometheus_request(config, requests_version, CatalogEndpoint, None, resp)
        c == get_cached_metrics(metrics_cache, current_time, gw)
        s1 == IF c.fetched THEN Charge(s, gw, resp) ELSE s
    IN /\ s.op = "search_metrics"
       /\ AtBody(s)
       /\ Len(fetch_log) < MaxCalls
       /\ elapsed # 0 => c.fetched /\ ~IsNone(gw.sent)
       /\ now + elapsed <= StartTime + MaxClockSteps * CACHE_TTL
       /\ now' = now + elapsed
       /\ metrics_cache' = c.cache
       /\ task' = [task EXCEPT ![t] =
              IF c.failed THEN Raise(s1, gw.exc[1])
              ELSE Finish([s1 EXCEPT !.catalog = Some(c.value)], SearchPage(c.value, s.args))]
       /\ fetch_log' = Append(fetch_log,
              [current_time |-> current_time, fetched |-> c.fetched, failed |-> c.failed,
               elapsed |-> elapsed])
       /\ UNCHANGED <<config, requests_version>>

\* single flight: a call made while another invocation that has fetched is
\* still in flight takes that invocation's snapshot instead of fetching
search_metrics_coalesced(t, resp, elapsed) ==
    LET s == task[t]
        current_time == now
        joined == /\ ~IsNone(metrics_cache.data)
                  /\ \E u \in Tasks \ {t} :
                        /\ task[u].op = "search_metrics"
                        /\ task[u].pc = "await100"
                        /\ task[u].gateway_calls = 1
                        /\ IsNone(task[u].caught)
        gw == make_prometheus_request(config, requests_version, CatalogEndpoint, None, resp)
        c == IF joined
             THEN [value |-> metrics_cache.data[1], cache |-> metrics_cache,
                   fetched |-> FALSE, failed |-> FALSE]
             ELSE get_cached_metrics(metrics_cache, current_time, gw)
        s1 == IF c.fetched THEN Charge(s, gw, resp) ELSE s
    IN /\ s.op = "search_metrics"
       /\ AtBody(s)
       /\ Len(fetch_log) < MaxCalls
       /\ elapsed # 0 => c.fetched /\ ~IsNone(gw.sent)
       /\ now + elapsed <= StartTime + MaxClockSteps * CACHE_TTL
       /\ now' = now + elapsed
       /\ metrics_cache' = c.cache
       /\ task' = [task EXCEPT ![t] =
              Finish([s1 EXCEPT !.catalog = Some(c.value),
                                !.caught = IF c.failed THEN gw.exc ELSE None],
                     SearchPage(c.value, s.args))]
       /\ fetch_log' = Append(fetch_log,
              [current_time |-> current_time, fetched |-> c.fetched, failed |-> c.failed,
               elapsed |-> elapsed])
       /\ UNCHANGED <<config, requests_version>>

\* elapsed is the time the blocking requests.get of the fetch takes: the clock
\* is read before the fetch (line 217) and its value is stored after it
search_metrics(t, resp, elapsed) ==
    LET s == task[t]
        current_time == now
        gw == make_prometheus_request(config, requests_version, CatalogEndpoint, None, resp)
        c == get_cached_metrics(metrics_cache, current_time, gw)
        s1 == IF c.fetched THEN Charge(s, gw, resp) ELSE s
    IN /\ s.op = "search_metrics"
       /\ AtBody(s)
       /\ Len(fetch_log) < MaxCalls
       /\ elapsed # 0 => c.fetched /\ ~IsNone(gw.sent)
       /\ now + elapsed <= StartTime + MaxClockSteps * CACHE_TTL
       /\ now' = now + elapsed
       /\ metrics_cache' = c.cache
       /\ task' = [task EXCEPT ![t] =
              Finish([s1 EXCEPT !.catalog = Some(c.value),
                                !.caught = IF c.failed THEN gw.exc ELSE None],
                     SearchPage(c.value, s.args))]
       /\ fetch_log' = Append(fetch_log,
              [current_time |-> current_time, fetched |-> c.fetched, failed |-> c.failed,
               elapsed |-> elapsed])
       /\ UNCHANGED <<config, requests_version>>

(***************************************************************************)
(* list_metrics: gateway call, optional filter, paginate.                  *)
(***************************************************************************)
ListPage(data, args) ==
    LET filter_pattern == args.pattern
        filtered == IF ~IsNone(filter_pattern) /\ filter_pattern[1] # <<>>
                    THEN FilterBy(Lower(filter_pattern[1]), data)
                    ELSE data
    IN Paginate(filtered, args.limit, args.offset)

\* the names taken from the cache while its snapshot is valid
list_metrics_cached(t, resp) ==
    LET s == task[t]
        cached == CacheValid(metrics_cache, now)
        gw == IF cached
              THEN [raised |-> FALSE, value |-> metrics_cache.data, sent |-> None, exc |-> None]
              ELSE make_prometheus_request(config, requests_version, CatalogEndpoint, None, resp)
        s1 == IF cached THEN s ELSE Charge(s, gw, resp)
    IN /\ s.op = "list_metrics"
       /\ AtBody(s)
       /\ task' = [task EXCEPT ![t] =
              IF gw.raised THEN Raise(s1, gw.exc[1])
              ELSE IF s.ctx
              THEN [s1 EXCEPT !.progress = Append(@, 50), !.data = gw.value,
                              !.catalog = gw.value, !.pc = "await50"]
              ELSE Finish([s1 EXCEPT !.catalog = gw.value], ListPage(gw.value[1], s.args))]
       /\ UNCHANGED <<config, requests_version, metrics_cache, now, fetch_log>>

list_metrics(t, resp) ==
    LET s == task[t]
        gw == make_prometheus_request(config, requests_version, CatalogEndpoint, None, resp)
        s1 == Charge(s, gw, resp)
    IN /\ s.op = "list_metrics"
       /\ AtBody(s)
       /\ task' = [task EXCEPT ![t] =
              IF gw.raised THEN Raise(s1, gw.exc[1])
              ELSE IF s.ctx
              THEN [s1 EXCEPT !.progress = Append(@, 50), !.data = gw.value,
                              !.catalog = gw.value, !.pc = "await50"]
              ELSE Finish([s1 EXCEPT !.catalog = gw.value], ListPage(gw.value[1], s.args))]
       /\ UNCHANGED <<config, requests_version, metrics_cache, now, fetch_log>>

\* list_metrics resumed after the progress report of 50
list_metrics_page(t) ==
    LET s == task[t]
    IN /\ s.op = "list_metrics"
       /\ s.pc = "await50"
       /\ task' = [task EXCEPT ![t] = Finish(s, ListPage(s.data[1], s.args))]
       /\ UNCHANGED <<config, requests_version, metrics_cache, now, fetch_log>>

(***************************************************************************)
(* execute_query and execute_range_query.                                  *)
(***************************************************************************)
\* the returned dict; links is the empty list when the key is absent
QueryResult(cfg, data, ui_params) ==
    [resultType |-> data.resultType,
     result |-> data.result,
     links |-> IF ~cfg.disable_prometheus_links
               THEN <<[href |-> RStripSlash(cfg.url) \o <<"/graph?", ui_params>>,
                       rel |-> "prometheus-ui",
                       title |-> "Ver no Prometheus UI"]>>
               ELSE <<>>]

InstantParams == DictSet(EmptyDict, "query", "up")

RangeParams ==
    DictSet(DictSet(DictSet(DictSet(EmptyDict, "query", "up"), "start", "0"), "end", "60"),
            "step", "15s")

execute_query(t, resp) ==
    LET s == task[t]
        gw == make_prometheus_request(config, requests_version, "query", Some(InstantParams), resp)
        s1 == Charge(s, gw, resp)
    IN /\ s.op = "execute_query"
       /\ AtBody(s)
       /\ task' = [task EXCEPT ![t] =
              IF gw.raised THEN Raise(s1, gw.exc[1])
              ELSE Finish(s1, QueryResult(config, gw.value[1], "g0.expr=up&g0.tab=0"))]
       /\ UNCHANGED <<config, requests_version, metrics_cache, now, fetch_log>>

RangeResult(cfg, data) ==
    QueryResult(cfg, data, "g0.expr=up&g0.tab=0&g0.range_input=0+to+60&g0.step_input=15s")

\* the progress report of 50 left out
execute_range_query_no50(t, resp) ==
    LET s == task[t]
        gw == make_prometheus_request(config, requests_version, "query_range", Some(RangeParams), resp)
        s1 == Charge(s, gw, resp)
    IN /\ s.op = "execute_range_query"
       /\ AtBody(s)
       /\ task' = [task EXCEPT ![t] =
              IF gw.raised THEN Raise(s1, gw.exc[1])
              ELSE IF s.ctx
              THEN [s1 EXCEPT !.data = gw.value, !.pc = "await50"]
              ELSE Finish(s1, RangeResult(config, gw.value[1]))]
       /\ UNCHANGED <<config, requests_version, metrics_cache, now, fetch_log>>

execute_range_query(t, resp) ==
    LET s == task[t]
        gw == make_prometheus_request(config, requests_version, "query_range", Some(RangeParams), resp)
        s1 == Charge(s, gw, resp)
    IN /\ s.op = "execute_range_query"
       /\ AtBody(s)
       /\ task' = [task EXCEPT ![t] =
              IF gw.raised THEN Raise(s1, gw.exc[1])
              ELSE IF s.ctx
              THEN [s1 EXCEPT !.progress = Append(@, 50), !.data = gw.value, !.pc = "await50"]
              ELSE Finish(s1, RangeResult(config, gw.value[1]))]
       /\ UNCHANGED <<config, requests_version, metrics_cache, now, fetch_log>>

\* execute_range_query resumed after the progress report of 50
execute_range_query_result(t) ==
    LET s == task[t]
    IN /\ s.op = "execute_range_query"
       /\ s.pc = "await50"
       /\ task' = [task EXCEPT ![t] = Finish(s, RangeResult(config, s.data[1]))]
       /\ UNCHANGED <<config, requests_version, metrics_cache, now, fetch_log>>

(***************************************************************************)
(* get_metric_metadata.  A JSON value is [t, dict, items]: t is "dict"     *)
(* (dict maps keys to JSON values), "list" (items) or "str".               *)
(***************************************************************************)
JDict(d) == [t |-> "dict", dict |-> d, items |-> <<>>]
JList(items) == [t |-> "list", dict |-> EmptyDict, items |-> items]

\* `key in data` for a dict; for a list of objects no element equals the key
HasKey(data, key) == data.t = "dict" /\ key \in DOMAIN data.dict

\* the "data" key looked up before the "metadata" key
NormalizeMetadata_dataFirst(data) ==
    LET metadata == IF HasKey(data, "data") THEN data.dict["data"]
                    ELSE IF HasKey(data, "metadata") THEN data.dict["metadata"]
                    ELSE data
    IN IF metadata.t = "dict" THEN JList(<<metadata>>) ELSE metadata

NormalizeMetadata(data) ==
    LET metadata == IF HasKey(data, "metadata") THEN data.dict["metadata"]
                    ELSE IF HasKey(data, "data") THEN data.dict["data"]
                    ELSE data
    IN IF metadata.t = "dict" THEN JList(<<metadata>>) ELSE metadata

get_metric_metadata(t, resp) ==
    LET s == task[t]
        gw == make_prometheus_request(config, requests_version, "metadata?metric=up", None, resp)
        s1 == Charge(s, gw, resp)
    IN /\ s.op = "get_metric_metadata"
       /\ AtBody(s)
       /\ task' = [task EXCEPT ![t] =
              IF gw.raised THEN Raise(s1, gw.exc[1])
              ELSE Finish(s1, NormalizeMetadata(gw.value[1]))]
       /\ UNCHANGED <<config, requests_version, metrics_cache, now, fetch_log>>

(***************************************************************************)
(* get_targets.                                                            *)
(***************************************************************************)
\* the gateway's failure answered with empty target lists
get_targets_swallows(t, resp) ==
    LET s == task[t]
        gw == make_prometheus_request(config, requests_version, "targets", None, resp)
        s1 == Charge(s, gw, resp)
    IN /\ s.op = "get_targets"
       /\ AtBody(s)
       /\ task' = [task EXCEPT ![t] =
              IF gw.raised
              THEN Finish([s1 EXCEPT !.caught = gw.exc],
                          [activeTargets |-> <<>>, droppedTargets |-> <<>>])
              ELSE Finish(s1, [activeTargets |-> gw.value[1].activeTargets,
                               droppedTargets |-> gw.value[1].droppedTargets])]
       /\ UNCHANGED <<config, requests_version, metrics_cache, now, fetch_log>>

get_targets(t, resp) ==
    LET s == task[t]
        gw == make_prometheus_request(config, requests_version, "targets", None, resp)
        s1 == Charge(s, gw, resp)
    IN /\ s.op = "get_targets"
       /\ AtBody(s)
       /\ task' = [task EXCEPT ![t] =
              IF gw.raised THEN Raise(s1, gw.exc[1])
              ELSE Finish(s1, [activeTargets |-> gw.value[1].activeTargets,
                               droppedTargets |-> gw.value[1].droppedTargets])]
       /\ UNCHANGED <<config, requests_version, metrics_cache, now, fetch_log>>

(***************************************************************************)
(* health_check.                                                           *)
(***************************************************************************)
\* a failed probe reported like a missing URL
HealthStatus_probeUnhealthy(cfg, probed, gw, timestamp) ==
    [status |-> IF ~probed \/ gw.raised THEN "unhealthy" ELSE "healthy",
     service |-> "prometheus-mcp-server",
     version |-> "1.5.0",
     timestamp |-> timestamp,
     transport |-> cfg.mcp_server_transport,
     configuration |->
        [prometheus_url_configured |-> cfg.url # <<>>,
         authentication_configured |-> (cfg.username # "" \/ cfg.token # ""),
         org_id_configured |-> cfg.org_id # ""],
     prometheus_connectivity |->
        IF ~probed THEN None ELSE IF gw.raised THEN Some("unhealthy") ELSE Some("healthy"),
     prometheus_url |-> IF probed /\ ~gw.raised THEN Some(cfg.url) ELSE None,
     prometheus_error |-> IF probed /\ gw.raised THEN Some(gw.exc[1].msg) ELSE None,
     error |-> IF ~probed THEN Some("PROMETHEUS_URL not configured") ELSE None]

HealthStatus(cfg, probed, gw, timestamp) ==
    [status |-> IF ~probed THEN "unhealthy" ELSE IF gw.raised THEN "degraded" ELSE "healthy",
     service |-> "prometheus-mcp-server",
     version |-> "1.5.0",
     timestamp |-> timestamp,
     transport |-> cfg.mcp_server_transport,
     configuration |->
        [prometheus_url_configured |-> cfg.url # <<>>,
         authentication_configured |-> (cfg.username # "" \/ cfg.token # ""),
         org_id_configured |-> cfg.org_id # ""],
     prometheus_connectivity |->
        IF ~probed THEN None ELSE IF gw.raised THEN Some("unhealthy") ELSE Some("healthy"),
     prometheus_url |-> IF probed /\ ~gw.raised THEN Some(cfg.url) ELSE None,
     prometheus_error |-> IF probed /\ gw.raised THEN Some(gw.exc[1].msg) ELSE None,
     error |-> IF ~probed THEN Some("PROMETHEUS_URL not configured") ELSE None]

health_check(t, resp) ==
    LET s == task[t]
        params == DictSet(DictSet(EmptyDict, "query", "up"), "time", ToString(now))
        probed == config.url # <<>>
        gw == make_prometheus_request(config, requests_version, "query", Some(params), resp)
        s1 == IF probed THEN Charge(s, gw, resp) ELSE s
    IN /\ s.op = "health_check"
       /\ AtBody(s)
       /\ task' = [task EXCEPT ![t] =
              Finish([s1 EXCEPT !.caught = IF probed /\ gw.raised THEN gw.exc ELSE None],
                     HealthStatus(config, probed, gw, now))]
       /\ UNCHANGED <<config, requests_version, metrics_cache, now, fetch_log>>

(***************************************************************************)
(* The environment: what the backend may answer, what the runtime may ask. *)
(***************************************************************************)
NameUp == <<"u", "p">>
NameGup == <<"G", "_", "U", "p">>
Names == {NameUp, NameGup}

\* catalogs of at most n names
CatalogsUpTo(n) == UNION {[1..k -> Names] : k \in 0..n}

QueryPayloads == {[resultType |-> "vector", result |-> <<"up 1">>]}

MetadataEntry == JDict(DictSet(EmptyDict, "type", [t |-> "str", dict |-> EmptyDict, items |-> <<"gauge">>]))

MetadataPayloads ==
    {JDict(DictSet(EmptyDict, "metadata", JList(<<MetadataEntry>>))),
     JDict(DictSet(EmptyDict, "metadata", MetadataEntry)),
     JDict(DictSet(EmptyDict, "data", JList(<<MetadataEntry>>))),
     JDict(DictSet(DictSet(EmptyDict, "data", JList(<<>>)), "metadata", JList(<<MetadataEntry>>))),
     JDict(DictSet(EmptyDict, "up", JList(<<MetadataEntry>>))),
     JList(<<MetadataEntry>>)}

TargetsPayloads == {[activeTargets |-> <<"job=demo">>, droppedTargets |-> <<>>]}

Body(is_json, status, error, data) ==
    [is_json |-> is_json, status |-> status, error |-> error, data |-> data]

\* bodies a backend may send
Bodies(payloads) ==
    {Body(FALSE, None, None, None),
     Body(TRUE, None, None, None),
     Body(TRUE, Some("error"), Some(<<"bad", "query">>), None),
     Body(TRUE, Some("error"), None, None),
     Body(TRUE, Some("success"), None, None)}
    \cup {Body(TRUE, Some("success"), None, Some(p)) : p \in payloads}

StatusCodes == {200, 500}

\* answers to one GET: no connection, or a status code and a body
Responses(payloads) ==
    {[connected |-> FALSE, status_code |-> 0, body |-> Body(FALSE, None, None, None)]}
    \cup {[connected |-> TRUE, status_code |-> c, body |-> b] :
             c \in StatusCodes, b \in Bodies(payloads)}

BaseUrl == <<"http://prometheus:9090">>

Config(url, verify, nolinks, username, password, token, org_id, custom_headers) ==
    [url |-> url, url_ssl_verify |-> verify, disable_prometheus_links |-> nolinks,
     username |-> username, password |-> password, token |-> token, org_id |-> org_id,
     mcp_server_transport |-> "stdio", custom_headers |-> custom_headers]

CustomHeaderChoices ==
    {None,
     Some(DictSet(EmptyDict, "Authorization", <<"Basic", "Y3VzdG9t">>)),
     Some(DictSet(EmptyDict, "X-Scope-OrgID", <<"other">>))}

\* every combination of the PROMETHEUS_* settings
AllConfigs ==
    {Config(url, verify, nolinks, username, password, token, org_id, custom) :
        url \in {<<>>, BaseUrl, BaseUrl \o <<"/">>},
        verify \in BOOLEAN, nolinks \in BOOLEAN,
        username \in {"", "admin"}, password \in {"", "secret"},
        token \in {"", "tok"}, org_id \in {"", "tenant"},
        custom \in CustomHeaderChoices}

\* with and without a backend URL, anonymous
UrlConfigs ==
    {Config(url, TRUE, FALSE, "", "", "", "", None) : url \in {<<>>, BaseUrl}}

RequestsVersions == {"2.27+", "pre-2.27"}

InitWith(configs, versions) ==
    /\ config \in configs
    /\ requests_version \in versions
    /\ metrics_cache = [data |-> None, timestamp |-> 0]
    /\ now = StartTime
    /\ task = [t \in Tasks |-> IdleTask]
    /\ fetch_log = <<>>

Delays == {CACHE_TTL - 1, CACHE_TTL}

\* how long a GET may take: no time worth counting, or as long as the TTL
\* (requests.get is called without a timeout)
FetchTimes == {0, CACHE_TTL}

PageArgs(limits, offsets, patterns) ==
    {[limit |-> l, offset |-> o, pattern |-> p] : l \in limits, o \in offsets, p \in patterns}

Terms == {<<>>, <<"u", "p">>, <<"U", "P">>, <<"g">>}

(***************************************************************************)
(* Spec: concurrent list_metrics / search_metrics invocations with and     *)
(* without a progress reporter, the clock and the cache.                   *)
(***************************************************************************)
MainCatalogs == {<<NameUp>>, <<NameUp, NameGup>>}
MainSearchArgs == PageArgs({Some(1)}, {0}, {Some(<<"U", "P">>)})
GatewaySearchArgs == PageArgs({None, Some(1)}, {0}, {Some(<<"U", "P">>)})
MainListArgs == PageArgs({None}, {1}, {None})

\* the backend is down, answers 500, or answers with a catalog
MainResponses ==
    {r \in Responses(MainCatalogs) :
        \/ ~r.connected
        \/ r.status_code = 500 /\ ~r.body.is_json
        \/ r.status_code = 200 /\ ~IsNone(r.body.data)}

Init == InitWith(UrlConfigs, {"2.27+"})

Next ==
    \/ \E t \in Tasks, ctx \in BOOLEAN, args \in MainListArgs : Call(t, "list_metrics", args, ctx)
    \/ \E t \in Tasks, ctx \in BOOLEAN, args \in MainSearchArgs : Call(t, "search_metrics", args, ctx)
    \/ \E t \in Tasks : ReportStart(t)
    \/ \E t \in Tasks : ReportEnd(t)
    \/ \E t \in Tasks : Deliver(t)
    \/ \E t \in Tasks, resp \in MainResponses, elapsed \in FetchTimes :
          search_metrics(t, resp, elapsed)
    \/ \E t \in Tasks, resp \in MainResponses : list_metrics(t, resp)
    \/ \E t \in Tasks : list_metrics_page(t)
    \/ \E d \in Delays : Tick(d)

Spec == Init /\ [][Next]_vars

(***************************************************************************)
(* SpecConfig: one invocation at a time of every tool under every          *)
(* configuration; the backend is down, answers 500, answers with an error  *)
(* envelope, or answers with the data.                                     *)
(***************************************************************************)
ConfigResponses(payloads) ==
    {r \in Responses(payloads) :
        \/ ~r.connected
        \/ r.status_code = 500 /\ ~r.body.is_json
        \/ r.status_code = 200 /\ ~IsNone(r.body.error)
        \/ r.status_code = 200 /\ ~IsNone(r.body.data)}

InitConfig == InitWith(AllConfigs, RequestsVersions)

NextConfig ==
    \/ \E op \in Ops \ {"list_metrics", "search_metrics"} : Call(1, op, NoArgs, FALSE)
    \/ \E args \in MainListArgs : Call(1, "list_metrics", args, FALSE)
    \/ \E args \in MainSearchArgs : Call(1, "search_metrics", args, FALSE)
    \/ Deliver(1)
    \/ \E resp \in ConfigResponses({<<NameUp>>}) : search_metrics(1, resp, 0)
    \/ \E resp \in ConfigResponses({<<NameUp>>}) : list_metrics(1, resp)
    \/ \E resp \in ConfigResponses(QueryPayloads) : execute_query(1, resp)
    \/ \E resp \in ConfigResponses(QueryPayloads) : execute_range_query(1, resp)
    \/ \E resp \in ConfigResponses({JList(<<MetadataEntry>>)}) : get_metric_metadata(1, resp)
    \/ \E resp \in ConfigResponses(TargetsPayloads) : get_targets(1, resp)
    \/ \E resp \in ConfigResponses(QueryPayloads) : health_check(1, resp)

SpecConfig == InitConfig /\ [][NextConfig]_vars

(***************************************************************************)
(* SpecGateway: one invocation at a time of every tool, with and without   *)
(* a progress reporter, against every backend answer, with the clock.      *)
(***************************************************************************)
InitGateway == InitWith(UrlConfigs, RequestsVersions)

NextGateway ==
    \/ \E op \in Ops \ CtxOps : Call(1, op, NoArgs, FALSE)
    \/ \E ctx \in BOOLEAN : Call(1, "execute_range_query", NoArgs, ctx)
    \/ \E ctx \in BOOLEAN, args \in MainListArgs : Call(1, "list_metrics", args, ctx)
    \/ \E ctx \in BOOLEAN, args \in GatewaySearchArgs : Call(1, "search_metrics", args, ctx)
    \/ ReportStart(1)
    \/ ReportEnd(1)
    \/ Deliver(1)
    \/ \E resp \in Responses(MainCatalogs), elapsed \in FetchTimes :
          search_metrics(1, resp, elapsed)
    \/ \E resp \in Responses(MainCatalogs) : list_metrics(1, resp)
    \/ list_metrics_page(1)
    \/ \E resp \in Responses(QueryPayloads) : execute_query(1, resp)
    \/ \E resp \in Responses(QueryPayloads) : execute_range_query(1, resp)
    \/ execute_range_query_result(1)
    \/ \E resp \in Responses(MetadataPayloads) : get_metric_metadata(1, resp)
    \/ \E resp \in Responses(TargetsPayloads) : get_targets(1, resp)
    \/ \E resp \in Responses(QueryPayloads) : health_check(1, resp)
    \/ Tick(CACHE_TTL)

SpecGateway == InitGateway /\ [][NextGateway]_vars

(***************************************************************************)
(* SpecPage: list_metrics and search_metrics over every catalog, limit,    *)
(* offset and filter term within the bounds.                               *)
(***************************************************************************)
Limits == {None} \cup {Some(l) : l \in 0..MaxLimit}
Offsets == 0..MaxOffset

InitPage == InitWith(UrlConfigs, {"2.27+"})

NextPage ==
    \/ \E args \in PageArgs(Limits, Offsets, {None} \cup {Some(p) : p \in Terms}) :
          Call(1, "list_metrics", args, FALSE)
    \/ \E args \in PageArgs(Limits, Offsets, {Some(p) : p \in Terms}) :
          Call(1, "search_metrics", args, FALSE)
    \/ Deliver(1)
    \/ \E resp \in Responses(CatalogsUpTo(MaxCatalog)) : search_metrics(1, resp, 0)
    \/ \E resp \in Responses(CatalogsUpTo(MaxCatalog)) : list_metrics(1, resp)

SpecPage == InitPage /\ [][NextPage]_vars

(***************************************************************************)
(* Properties.                                                             *)
(***************************************************************************)
Last(q) == q[Len(q)]

\* the step in which task t ran get_cached_metrics
CatalogCall(t) == Len(fetch_log') = Len(fetch_log) + 1 /\ task'[t] # task[t]

Fetches(e) == IF e.fetched THEN 1 ELSE 0

SearchDone(s) == s.op = "search_metrics" /\ s.pc \in {"await100", "returned"}

\* C1 as stated: any two search_metrics calls less than the TTL apart issue
\* at most one catalog fetch between them, whatever the first fetch's outcome
C1_AtMostOneFetchAnyOutcome ==
    \A i, j \in DOMAIN fetch_log :
        (i < j /\ fetch_log[j].current_time - fetch_log[i].current_time < CACHE_TTL)
        => Fetches(fetch_log[i]) + Fetches(fetch_log[j]) <= 1

\* C1 amended: any two search_metrics calls less than the TTL apart issue at
\* most one catalog fetch between them, provided the first call's fetch did
\* not fail
C1_AtMostOneFetch ==
    \A i, j \in DOMAIN fetch_log :
        (i < j /\ fetch_log[j].current_time - fetch_log[i].current_time < CACHE_TTL
               /\ ~fetch_log[i].failed)
        => Fetches(fetch_log[i]) + Fetches(fetch_log[j]) <= 1

\* a call fetched successfully and a later call inside the window was served
\* from the cache
C1_Witness ==
    \E i, j \in DOMAIN fetch_log :
        /\ i < j
        /\ fetch_log[i].fetched /\ ~fetch_log[i].failed
        /\ fetch_log[j].current_time > fetch_log[i].current_time
        /\ fetch_log[j].current_time - fetch_log[i].current_time < CACHE_TTL
        /\ ~fetch_log[j].fetched

\* C2: when the cache holds a non-empty snapshot whose age has reached the
\* TTL and the refresh fails, get_cached_metrics returns that snapshot, the
\* same names in the same order
C2_StaleFallback ==
    [][\A t \in Tasks :
          (/\ CatalogCall(t)
           /\ ~IsNone(metrics_cache.data)
           /\ metrics_cache.data[1] # <<>>
           /\ now - metrics_cache.timestamp >= CACHE_TTL
           /\ Last(fetch_log').failed)
          => task'[t].catalog = Some(metrics_cache.data[1])]_vars

\* a search whose refresh failed was answered from a snapshot past its TTL
C2_Witness ==
    \E t \in Tasks :
        /\ SearchDone(task[t])
        /\ ~IsNone(task[t].caught)
        /\ ~IsNone(metrics_cache.data)
        /\ metrics_cache.data[1] # <<>>
        /\ Last(fetch_log).failed
        /\ Last(fetch_log).current_time - metrics_cache.timestamp >= CACHE_TTL
        /\ task[t].catalog = metrics_cache.data

EmptyPage(r) ==
    r.metrics = <<>> /\ r.total_count = 0 /\ r.returned_count = 0 /\ ~r.has_more

\* C3: search_metrics never ends in an exception; get_cached_metrics always
\* returns a sequence; when the fetch fails and nothing was cached it returns
\* the empty sequence and search_metrics returns an empty page
C3_CatalogNeverRaises ==
    [][\A t \in Tasks :
          /\ (task'[t].op = "search_metrics"
                => task'[t].pc # "raised" /\ IsNone(task'[t].exc))
          /\ (CatalogCall(t) => ~IsNone(task'[t].catalog) /\ ~IsNone(task'[t].result))
          /\ (CatalogCall(t) /\ Last(fetch_log').failed /\ IsNone(metrics_cache.data)
                => task'[t].catalog = Some(<<>>) /\ EmptyPage(task'[t].result[1]))]_vars

\* a search whose fetch failed with nothing cached returned the empty page
C3_Witness ==
    \E t \in Tasks :
        /\ SearchDone(task[t])
        /\ ~IsNone(task[t].caught)
        /\ IsNone(metrics_cache.data)
        /\ task[t].catalog = Some(<<>>)
        /\ EmptyPage(task[t].result[1])

\* C4: a get_cached_metrics call made when the cached snapshot's age has
\* reached the TTL makes exactly one gateway call and issues exactly one GET
C4_ExactlyOneFetchAfterExpiry ==
    [][\A t \in Tasks :
          (/\ CatalogCall(t)
           /\ ~IsNone(metrics_cache.data)
           /\ now - metrics_cache.timestamp >= CACHE_TTL)
          => /\ Last(fetch_log').fetched
             /\ task'[t].gateway_calls = task[t].gateway_calls + 1
             /\ task'[t].gateway_calls = 1
             /\ Len(task'[t].sent) = 1]_vars

\* a snapshot fetched by one call was replaced by the fetch of a call made a
\* full TTL later
C4_Witness ==
    \E i \in DOMAIN fetch_log :
        /\ i < Len(fetch_log)
        /\ fetch_log[i].fetched /\ ~fetch_log[i].failed
        /\ Last(fetch_log).fetched /\ ~Last(fetch_log).failed
        /\ Last(fetch_log).current_time - fetch_log[i].current_time = CACHE_TTL
        /\ metrics_cache.timestamp = Last(fetch_log).current_time

PageDone(s) ==
    s.op \in {"list_metrics", "search_metrics"} /\ s.pc \in {"await100", "returned"}

\* the names the handler's filter keeps
Kept(s) ==
    LET names == s.catalog[1]
        unfiltered == s.op = "list_metrics" /\ (IsNone(s.args.pattern) \/ s.args.pattern[1] = <<>>)
    IN {i \in 1..Len(names) : unfiltered \/ StrIn(Lower(s.args.pattern[1]), Lower(names[i]))}

\* C5: a page of list_metrics or search_metrics has total_count = the number
\* of names the filter keeps and returned_count = len(metrics) =
\* min(max(total_count - offset, 0), limit or infinity)
C5_ReturnedCount ==
    \A t \in Tasks :
        PageDone(task[t]) =>
            LET r == task[t].result[1]
                a == task[t].args
                total == Cardinality(Kept(task[t]))
                rest == Max(total - a.offset, 0)
            IN /\ r.total_count = total
               /\ r.returned_count = Len(r.metrics)
               /\ r.returned_count = IF IsNone(a.limit) THEN rest ELSE Min(rest, a.limit[1])

\* an offset at or beyond a non-zero total_count produced an empty page
C5_Witness ==
    \E t \in Tasks :
        /\ PageDone(task[t])
        /\ task[t].result[1].total_count > 0
        /\ task[t].args.offset >= task[t].result[1].total_count
        /\ task[t].result[1].metrics = <<>>

\* C6: a page of list_metrics or search_metrics has
\* has_more = (offset + returned_count < total_count)
C6_HasMore ==
    \A t \in Tasks :
        PageDone(task[t]) =>
            LET r == task[t].result[1]
            IN r.has_more = (task[t].args.offset + r.returned_count < r.total_count)

\* a page asked with limit 0 is empty and reports more
C6_Witness ==
    \E t \in Tasks :
        /\ PageDone(task[t])
        /\ task[t].args.limit = Some(0)
        /\ task[t].result[1].returned_count = 0
        /\ task[t].result[1].has_more

BothAuth == config.token # "" /\ config.username # "" /\ config.password # ""

BearerHeader == <<"Bearer", config.token>>

\* C7 as stated: with a token and username+password configured, every GET
\* carries Authorization: Bearer <token> and no basic-auth credential
C7_BearerAlways ==
    BothAuth =>
        \A t \in Tasks : \A i \in DOMAIN task[t].sent :
            LET r == task[t].sent[i]
            IN /\ IsNone(r.auth)
               /\ "Authorization" \in DOMAIN r.headers
               /\ r.headers["Authorization"] = BearerHeader

CustomAuthorization ==
    ~IsNone(config.custom_headers) /\ "Authorization" \in DOMAIN config.custom_headers[1]

\* C7 amended: with a token and username+password configured, every GET is
\* sent without a basic-auth credential and carries Authorization: Bearer
\* <token>, unless the custom headers define Authorization, whose value is
\* then the one sent
C7_BearerUnlessCustom ==
    BothAuth =>
        \A t \in Tasks : \A i \in DOMAIN task[t].sent :
            LET r == task[t].sent[i]
            IN /\ IsNone(r.auth)
               /\ "Authorization" \in DOMAIN r.headers
               /\ r.headers["Authorization"] =
                     IF CustomAuthorization
                     THEN config.custom_headers[1]["Authorization"]
                     ELSE BearerHeader

\* a GET left with the bearer header while username+password were set too
C7_Witness ==
    /\ BothAuth
    /\ \E t \in Tasks :
          /\ Len(task[t].sent) = 1
          /\ IsNone(task[t].sent[1].auth)
          /\ task[t].sent[1].headers["Authorization"] = BearerHeader

\* the exception the gateway raised in this invocation, if any
Signalled(s) == IF s.pc = "raised" THEN s.exc ELSE s.caught

ErrorEnvelope(r) ==
    /\ r.connected
    /\ 200 <= r.status_code /\ r.status_code < 300
    /\ r.body.is_json
    /\ ~IsNone(r.body.status)
    /\ r.body.status[1] # "success"

\* the gateway raised "Prometheus API error: ..." containing text, and
\* execute_query let it through
BackendFailureWith(s, text) ==
    /\ ~IsNone(Signalled(s))
    /\ Signalled(s)[1].type = "ValueError"
    /\ SubSeq(Signalled(s)[1].msg, 1, 3) = <<"Prometheus", "API", "error:">>
    /\ StrIn(text, Signalled(s)[1].msg)
    /\ IsNone(s.result) \/ s.op \in {"search_metrics", "health_check"}
    /\ s.op = "execute_query" => s.pc = "raised" /\ s.exc = Signalled(s) /\ IsNone(s.result)

\* C8 as stated: on a 2xx JSON envelope whose status is not "success" the
\* failure's message contains the envelope's error text, or "unknown" when
\* there is none, and execute_query passes it on without a result
C8_BackendFailureUnknown ==
    \A t \in Tasks :
        (~IsNone(task[t].response) /\ ErrorEnvelope(task[t].response[1])) =>
            BackendFailureWith(task[t],
                IF IsNone(task[t].response[1].body.error) THEN <<"unknown">>
                ELSE task[t].response[1].body.error[1])

\* C8 amended: on a 2xx JSON envelope whose status is not "success" the
\* failure's message contains the envelope's error text, or "Unknown error"
\* when there is none, and execute_query passes it on without a result
C8_BackendFailure ==
    \A t \in Tasks :
        (~IsNone(task[t].response) /\ ErrorEnvelope(task[t].response[1])) =>
            BackendFailureWith(task[t],
                IF IsNone(task[t].response[1].body.error) THEN <<"Unknown", "error">>
                ELSE task[t].response[1].body.error[1])

\* execute_query raised on an error envelope that has no error field
C8_Witness ==
    \E t \in Tasks :
        /\ task[t].op = "execute_query"
        /\ task[t].pc = "raised"
        /\ ~IsNone(task[t].response)
        /\ ErrorEnvelope(task[t].response[1])
        /\ IsNone(task[t].response[1].body.error)
        /\ StrIn(<<"Unknown", "error">>, task[t].exc[1].msg)

TransportFailure(e) == e.type \in {"requests.HTTPError", "requests.ConnectionError"}

DecodeFailure(e) ==
    /\ e.type = "ValueError"
    /\ SubSeq(e.msg, 1, 5) = <<"Invalid", "JSON", "response", "from", "Prometheus:">>

\* C9: a failed request is classified by its cause: a non-2xx answer gives
\* a transport failure, a 2xx answer whose body is not JSON gives the
\* "Invalid JSON response" failure
C9_FailureKinds ==
    \A t \in Tasks :
        (~IsNone(task[t].response) /\ ~IsNone(Signalled(task[t]))) =>
            LET r == task[t].response[1]
                e == Signalled(task[t])[1]
                ok2xx == 200 <= r.status_code /\ r.status_code < 300
            IN /\ (r.connected /\ ~ok2xx) => TransportFailure(e)
               /\ (r.connected /\ ok2xx /\ ~r.body.is_json) => DecodeFailure(e)

BackendOps ==
    {"execute_query", "execute_range_query", "list_metrics", "get_metric_metadata", "get_targets"}

\* C10: with no backend URL no invocation issues a GET; execute_query,
\* execute_range_query, list_metrics, get_metric_metadata and get_targets end
\* in the configuration-missing failure, and so does the cache's fetch
C10_ConfigurationMissing ==
    config.url = <<>> =>
        \A t \in Tasks :
            /\ task[t].sent = <<>>
            /\ IsNone(task[t].response)
            /\ (task[t].op \in BackendOps /\ task[t].pc \notin {"idle", "called", "await0"})
                  => /\ task[t].pc = "raised"
                     /\ task[t].exc = Some(ConfigurationMissing)
                     /\ task[t].gateway_calls = 1
                     /\ IsNone(task[t].result)
            /\ SearchDone(task[t])
                  => task[t].gateway_calls = 1 /\ task[t].caught = Some(ConfigurationMissing)

\* get_targets failed for want of a URL without a GET
C10_Witness ==
    /\ config.url = <<>>
    /\ \E t \in Tasks :
          /\ task[t].op = "get_targets"
          /\ task[t].pc = "raised"
          /\ task[t].exc = Some(ConfigurationMissing)
          /\ task[t].sent = <<>>

\* the answer the gateway accepts: connected, not 4xx/5xx, a JSON envelope
\* with status "success" and a data field
Accepted(r) ==
    /\ r.connected
    /\ r.status_code < 400
    /\ r.body.is_json
    /\ r.body.status = Some("success")
    /\ ~IsNone(r.body.data)

HealthDone(s) == s.op = "health_check" /\ s.pc \notin {"idle", "called"}

\* C11: health_check never raises and always returns a result; its status is
\* "unhealthy" exactly when no URL is configured, and then no GET is issued;
\* with a URL it issues one probe GET of the instant query `up` and the
\* status is "healthy" when the backend's answer is accepted and "degraded"
\* when the probe fails, whatever the failure
C11_HealthStatus ==
    \A t \in Tasks :
        LET s == task[t]
        IN /\ s.op = "health_check" => s.pc # "raised" /\ IsNone(s.exc)
           /\ HealthDone(s) =>
                /\ s.pc = "returned"
                /\ ~IsNone(s.result)
                /\ s.result[1].status \in {"healthy", "degraded", "unhealthy"}
                /\ s.result[1].status = "unhealthy" <=> config.url = <<>>
                /\ config.url = <<>> => s.sent = <<>> /\ s.gateway_calls = 0
                /\ config.url # <<>> =>
                      /\ Len(s.sent) = 1
                      /\ s.sent[1].url = config.url \o <<"/api/v1/", "query">>
                      /\ s.sent[1].params[1]["query"] = "up"
                      /\ s.result[1].status = "healthy" <=> Accepted(s.response[1])
                      /\ s.result[1].status = "degraded" <=> ~Accepted(s.response[1])
                      /\ s.result[1].status = "degraded" <=> ~IsNone(s.caught)

\* health_check returned "degraded" after the backend refused the connection
C11_Witness ==
    \E t \in Tasks :
        /\ task[t].op = "health_check"
        /\ task[t].pc = "returned"
        /\ config.url # <<>>
        /\ ~task[t].response[1].connected
        /\ task[t].result[1].status = "degraded"

StrictlyIncreasing(q) == \A i, j \in DOMAIN q : i < j => q[i] < q[j]

Ended(s) == s.pc \in {"returned", "raised"}

\* C12 as stated: the progress values an invocation with a reporter has
\* reported are strictly increasing, and when the invocation has ended, by
\* a return or by the gateway's failure, the last value reported is 100
C12_ProgressEndsAt100 ==
    \A t \in Tasks :
        (task[t].op \in CtxOps /\ task[t].ctx) =>
            /\ StrictlyIncreasing(task[t].progress)
            /\ Ended(task[t]) =>
                  task[t].progress # <<>> /\ Last(task[t].progress) = 100

\* C12 amended: the progress values an invocation with a reporter has
\* reported are strictly increasing; an invocation that returns a result has
\* reported 100 last; execute_range_query and list_metrics whose gateway
\* call failed end in that failure having reported 0 only; search_metrics
\* does not fail
C12_ProgressEndsAt100OnReturn ==
    \A t \in Tasks :
        (task[t].op \in CtxOps /\ task[t].ctx) =>
            /\ StrictlyIncreasing(task[t].progress)
            /\ \A i \in DOMAIN task[t].progress : task[t].progress[i] \in {0, 50, 100}
            /\ (task[t].pc \in {"await100", "returned"}) =>
                  task[t].progress # <<>> /\ Last(task[t].progress) = 100
            /\ task[t].pc = "raised" =>
                  /\ task[t].op \in {"execute_range_query", "list_metrics"}
                  /\ task[t].progress = <<0>>
                  /\ task[t].gateway_calls = 1

\* list_metrics with a reporter ended in the gateway's failure after tick 0
C12_Witness ==
    \E t \in Tasks :
        /\ task[t].op = "list_metrics"
        /\ task[t].ctx
        /\ task[t].pc = "raised"
        /\ ~IsNone(task[t].response)
        /\ task[t].progress = <<0>>

\* the one GET of a range query that got its answer, and the result made of it
RangeCallMade(s) ==
    /\ s.gateway_calls = 1
    /\ Len(s.sent) = 1
    /\ s.sent[1].url = RStripSlash(config.url) \o <<"/api/v1/", "query_range">>
    /\ s.sent[1].params = Some(RangeParams)
    /\ Accepted(s.response[1])

RangeResultOf(s) == Some(RangeResult(config, s.response[1].body.data[1]))

\* C13: execute_range_query with a reporter reports 0 before its gateway
\* call, 50 after the call has returned and 100 before it returns its
\* result, and nothing else; without a reporter it reports nothing; in both
\* cases it makes one gateway call and returns the same result for the same
\* answer of the backend
C13_RangeTicks ==
    \A t \in Tasks :
        LET s == task[t]
        IN s.op = "execute_range_query" =>
            /\ ~s.ctx => s.progress = <<>>
            /\ s.pc = "called" => s.progress = <<>> /\ s.gateway_calls = 0
            /\ s.pc = "await0" =>
                  s.ctx /\ s.progress = <<0>> /\ s.gateway_calls = 0 /\ s.sent = <<>>
            /\ s.pc = "await50" =>
                  s.ctx /\ s.progress = <<0, 50>> /\ RangeCallMade(s) /\ IsNone(s.result)
            /\ s.pc = "await100" =>
                  s.ctx /\ s.progress = <<0, 50, 100>> /\ RangeCallMade(s)
            /\ s.pc = "returned" =>
                  /\ s.progress = IF s.ctx THEN <<0, 50, 100>> ELSE <<>>
                  /\ RangeCallMade(s)
                  /\ s.result = RangeResultOf(s)

\* a range query with a reporter returned after its three reports
C13_Witness ==
    \E t \in Tasks :
        /\ task[t].op = "execute_range_query"
        /\ task[t].ctx
        /\ task[t].pc = "returned"
        /\ task[t].progress = <<0, 50, 100>>
        /\ ~IsNone(task[t].result)

MetadataDone(s) ==
    s.op = "get_metric_metadata" /\ s.pc = "returned" /\ ~IsNone(s.response)

\* C14: get_metric_metadata returns a list: the value under the payload's
\* "metadata" key if it has one, else the value under its "data" key if it
\* has one, else the payload itself, and that value inside a one-element
\* list when it is an object; the payload {"metadata": [{"type": "gauge"}]}
\* gives [{"type": "gauge"}]
C14_MetadataList ==
    \A t \in Tasks :
        MetadataDone(task[t]) =>
            LET payload == task[t].response[1].body.data[1]
                keys == IF payload.t = "dict" THEN DOMAIN payload.dict ELSE {}
                chosen == IF "metadata" \in keys THEN payload.dict["metadata"]
                          ELSE IF "data" \in keys THEN payload.dict["data"]
                          ELSE payload
                result == task[t].result[1]
            IN /\ result.t = "list"
               /\ chosen.t = "list" => result = chosen
               /\ chosen.t = "dict" => result.items = <<chosen>>
               /\ payload = JDict(DictSet(EmptyDict, "metadata", JList(<<MetadataEntry>>)))
                     => result = JList(<<MetadataEntry>>)

\* a lone object under the "metadata" key came back as a one-element list
C14_Witness ==
    \E t \in Tasks :
        /\ MetadataDone(task[t])
        /\ task[t].response[1].body.data[1] = JDict(DictSet(EmptyDict, "metadata", MetadataEntry))
        /\ task[t].result = Some(JList(<<MetadataEntry>>))

\* the invocation's gateway call failed: no URL, or an answer not accepted
GatewayFailed(s) ==
    /\ s.gateway_calls > 0
    /\ config.url = <<>> \/ ~Accepted(s.response[1])

\* the exception the gateway raises for that failure
GatewayCause(s) ==
    make_prometheus_request(config, requests_version, "", None,
        IF IsNone(s.response) THEN [connected |-> FALSE] ELSE s.response[1]).exc

\* C15: when the gateway call of execute_query, execute_range_query,
\* list_metrics, get_metric_metadata or get_targets fails, the invocation
\* ends in the gateway's exception, unchanged, and has no result;
\* search_metrics and health_check return a result and keep the exception
\* to themselves
C15_FailuresPropagate ==
    \A t \in Tasks :
        LET s == task[t]
        IN /\ (s.op \in BackendOps /\ GatewayFailed(s)) =>
                 /\ s.pc = "raised"
                 /\ s.exc = GatewayCause(s)
                 /\ IsNone(s.result)
                 /\ IsNone(s.caught)
           /\ (s.op \in {"search_metrics", "health_check"} /\ GatewayFailed(s)) =>
                 /\ s.pc \in {"await100", "returned"}
                 /\ ~IsNone(s.result)
                 /\ IsNone(s.exc)
                 /\ s.caught = GatewayCause(s)

\* get_metric_metadata ended in the connection error of its GET
C15_Witness ==
    \E t \in Tasks :
        /\ task[t].op = "get_metric_metadata"
        /\ task[t].pc = "raised"
        /\ ~IsNone(task[t].response)
        /\ ~task[t].response[1].connected
        /\ task[t].exc[1].type = "requests.ConnectionError"
        /\ IsNone(task[t].result)

\* the step in which task t fetched the catalog with success
Refreshed(t) ==
    /\ CatalogCall(t)
    /\ Last(fetch_log').fetched
    /\ ~Last(fetch_log').failed

\* the pair that the fetch made by task t in this step produces
FetchedPair(t) ==
    [data |-> Some(task'[t].response[1].body.data[1]), timestamp |-> now]

\* C16: in every step of every interleaving the cache either keeps its
\* (snapshot, timestamp) pair or gets both from the one successful fetch of
\* that step: the snapshot is that fetch's whole payload, the timestamp is
\* that call's time; the pair is the initial one or one written this way
C16_AtomicReplace ==
    [][/\ (metrics_cache' # metrics_cache \/ \E t \in Tasks : Refreshed(t))
           => \E t \in Tasks :
                 /\ Refreshed(t)
                 /\ Accepted(task'[t].response[1])
                 /\ metrics_cache' = FetchedPair(t)
                 /\ \A u \in Tasks \ {t} : task'[u] = task[u]
       /\ IsNone(metrics_cache'.data) <=> metrics_cache'.timestamp = 0]_vars

\* a snapshot was replaced, with its timestamp, by the fetch of one
\* invocation while another invocation was suspended in a progress report
C16_Witness ==
    \E t, u \in Tasks :
        /\ t # u
        /\ SearchDone(task[t])
        /\ ~IsNone(task[t].response)
        /\ Accepted(task[t].response[1])
        /\ metrics_cache = [data |-> Some(task[t].response[1].body.data[1]),
                             timestamp |-> Last(fetch_log).current_time]
        /\ metrics_cache.timestamp > StartTime
        /\ task[u].pc \in {"await0", "await50"}

\* the cache is empty or its snapshot's age has reached the TTL
StaleOrEmpty == IsNone(metrics_cache.data) \/ now - metrics_cache.timestamp >= CACHE_TTL

\* an invocation of search_metrics with a reporter that has fetched the
\* catalog with success and has not returned yet
InFlightFetched(s) ==
    /\ s.op = "search_metrics"
    /\ s.pc = "await100"
    /\ s.gateway_calls = 1
    /\ ~IsNone(s.response)
    /\ Accepted(s.response[1])

\* C17: nothing coalesces fetches: every get_cached_metrics call that finds
\* the cache empty or stale makes its own gateway call (one GET when a URL
\* is configured), whatever the other invocations in flight have fetched;
\* the state in which two invocations in flight together have each fetched
\* for one stale window is C17_Witness
C17_NoSingleFlight ==
    [][\A t \in Tasks :
          (CatalogCall(t) /\ StaleOrEmpty) =>
              /\ Last(fetch_log').fetched
              /\ task'[t].gateway_calls = task[t].gateway_calls + 1
              /\ config.url # <<>> =>
                    /\ Len(task'[t].sent) = Len(task[t].sent) + 1
                    /\ ~IsNone(task'[t].response)]_vars

\* two invocations in flight together have each fetched the catalog with
\* success, and the cache was not valid at any time from the first fetch to
\* the second: the first fetch lasted as long as the TTL, so the snapshot's
\* timestamp, read before the fetch, was stale when written
C17_Witness ==
    /\ Len(fetch_log) = 2
    /\ \E t, u \in Tasks :
          /\ t # u
          /\ InFlightFetched(task[t])
          /\ InFlightFetched(task[u])
    /\ fetch_log[1].fetched /\ ~fetch_log[1].failed
    /\ fetch_log[2].fetched /\ ~fetch_log[2].failed
    /\ fetch_log[1].elapsed >= CACHE_TTL
    /\ fetch_log[2].current_time = fetch_log[1].current_time + fetch_log[1].elapsed

\* C18: with a URL configured every call of make_prometheus_request issues
\* one GET, no more, whether the backend refuses the connection, answers
\* 4xx/5xx, answers with a body that is not JSON, with an error envelope or
\* with the data; the call then returns the payload or raises, and the
\* handler goes on or ends with it
C18_SingleAttempt ==
    [][\A t \in Tasks :
          (config.url # <<>> /\ task'[t].gateway_calls = task[t].gateway_calls + 1) =>
              /\ Len(task'[t].sent) = Len(task[t].sent) + 1
              /\ ~IsNone(task'[t].response)
              /\ Accepted(task'[t].response[1]) <=> IsNone(Signalled(task'[t]))
              /\ task'[t].pc \in {"await50", "await100", "returned", "raised"}]_vars

\* get_targets ended in the HTTP error of a 500 answer after one GET
C18_Witness ==
    \E t \in Tasks :
        /\ task[t].op = "get_targets"
        /\ task[t].pc = "raised"
        /\ ~IsNone(task[t].response)
        /\ task[t].response[1].connected
        /\ task[t].response[1].status_code = 500
        /\ task[t].gateway_calls = 1
        /\ Len(task[t].sent) = 1

\* the step in which task t ran list_metrics up to its gateway call
ListCall(t) ==
    task[t].op = "list_metrics" /\ AtBody(task[t]) /\ task'[t] # task[t]

\* C19: every list_metrics invocation makes its own gateway call for the
\* catalog (one GET when a URL is configured) whatever the cache holds, its
\* result is made of the names that call returned, and no step of a
\* list_metrics invocation changes the cached snapshot or its timestamp
C19_ListBypassesCache ==
    [][\A t \in Tasks :
          /\ ListCall(t) =>
                /\ task'[t].gateway_calls = 1
                /\ config.url # <<>> =>
                      /\ Len(task'[t].sent) = 1
                      /\ task'[t].sent[1].url = RStripSlash(config.url) \o <<"/api/v1/", CatalogEndpoint>>
                      /\ ~IsNone(task'[t].response)
                /\ task'[t].pc # "raised" =>
                      task'[t].catalog = Some(task'[t].response[1].body.data[1])
          /\ (task[t].op = "list_metrics" /\ task'[t] # task[t]) =>
                /\ metrics_cache' = metrics_cache
                /\ fetch_log' = fetch_log
          /\ (task'[t].op = "list_metrics" /\ ~IsNone(task'[t].result)) =>
                task'[t].result =
                    Some(ListPage(task'[t].response[1].body.data[1], task'[t].args))]_vars

\* list_metrics returned names of its own fetch while the cache held a
\* valid snapshot of other names
C19_Witness ==
    \E t \in Tasks :
        /\ task[t].op = "list_metrics"
        /\ task[t].pc = "returned"
        /\ CacheValid(metrics_cache, now)
        /\ metrics_cache.data = Some(<<NameUp>>)
        /\ task[t].catalog = Some(<<NameUp, NameGup>>)
        /\ task[t].result[1].metrics = <<NameGup>>

\* C20: a get_cached_metrics call whose fetch fails leaves the snapshot and
\* the timestamp as they were, so that the cache is still empty or stale
\* and the next get_cached_metrics call fetches again; the timestamp
\* changes only in a step with a successful fetch; a snapshot, once set,
\* is never absent again
C20_FailureNotCached ==
    [][/\ \A t \in Tasks :
             /\ (CatalogCall(t) /\ Last(fetch_log').failed) =>
                   /\ metrics_cache' = metrics_cache
                   /\ \/ IsNone(metrics_cache'.data)
                      \/ now' - metrics_cache'.timestamp >= CACHE_TTL
             /\ (CatalogCall(t) /\ fetch_log # <<>> /\ Last(fetch_log).failed) =>
                   Last(fetch_log').fetched
       /\ metrics_cache'.timestamp # metrics_cache.timestamp =>
             \E t \in Tasks : Refreshed(t)
       /\ ~IsNone(metrics_cache.data) => ~IsNone(metrics_cache'.data)]_vars

\* after a successful fetch a refresh made past the TTL failed, and the
\* cache still holds the pair of the first fetch, stale as before
C20_Witness ==
    /\ Len(fetch_log) = 2
    /\ fetch_log[1].fetched /\ ~fetch_log[1].failed
    /\ fetch_log[2].fetched /\ fetch_log[2].failed
    /\ ~IsNone(metrics_cache.data)
    /\ metrics_cache.timestamp = fetch_log[1].current_time
    /\ fetch_log[2].current_time - metrics_cache.timestamp >= CACHE_TTL
    /\ now - metrics_cache.timestamp >= CACHE_TTL

====
